---- MODULE Spec2Model ----
(***************************************************************************)
(* Model of the generation pipeline of the math video generator            *)
(* (src/utils/video_generator.py): problem validation, narration building, *)
(* script composition and the complete-generation handler.                 *)
(*                                                                         *)
(* Text is a sequence of one-character strings.  Fixed stretches of the    *)
(* script template and of the narration templates that hold no user text   *)
(* are single opaque tokens written "[...]"; they never equal a character. *)
(* A Python value is a record [kind, val]; a field that is absent from     *)
(* the problem dictionary has kind "absent".                               *)
(***************************************************************************)
EXTENDS Integers, Sequences, FiniteSets, TLC

VARIABLES
    now,            \* int(time.time()): the clock, in whole seconds
    problem_data,   \* the problem dictionary (mutable, shared with the caller)
    passed,         \* problem_data as it was when validate_problem_data was entered
    validated,      \* what validate_problem_data returned
    audio_content,  \* what generate_audio_content returned
    script,         \* what the last generate_script_content call did
    script_prev,    \* what the generate_script_content call before it did
    result,         \* what generate_video_complete returned, and the stages it entered
    sarvam_api_key, \* MathVideoGenerator.sarvam_api_key
    requests,       \* the generation requests started so far, with the names each took
    render,         \* the render_video call in progress: position, process, files
    synth,          \* the create_audio_files call in progress
    upload,         \* the upload call in progress, and the local files it was given
    download,       \* the download_file_content call in progress
    search,         \* a search_in_textbook call: its arguments and its result
    scene           \* a run of the generated scene program: __init__, then construct

vars == <<now, problem_data, passed, validated, audio_content, script,
          script_prev, result, sarvam_api_key, requests, render, synth, upload,
          download, search, scene>>

\* what the calls on one problem leave alone
aux == <<requests, render, synth, upload, download, search, scene>>

\* the calls that stand apart from the generation pipeline
more == <<download, search, scene>>

-----------------------------------------------------------------------------
(* Bounds of the model *)

MaxBlockLen == 3
MaxSteps == 2
MaxClock == 1

-----------------------------------------------------------------------------
(* Characters *)

DQ == "\""
BS == "\\"
LF == "\n"
SP == " "

Whitespace == {SP, LF}

UpperChars == <<"A", "B", "C", "D", "E", "F", "G", "H", "I", "J", "K", "L", "M",
                "N", "O", "P", "Q", "R", "S", "T", "U", "V", "W", "X", "Y", "Z">>
LowerChars == <<"a", "b", "c", "d", "e", "f", "g", "h", "i", "j", "k", "l", "m",
                "n", "o", "p", "q", "r", "s", "t", "u", "v", "w", "x", "y", "z">>

DigitChars == <<"0", "1", "2", "3", "4", "5", "6", "7", "8", "9">>

\* str.lower() on one character
LowerChar(c) ==
    IF \E i \in 1..Len(UpperChars) : UpperChars[i] = c
    THEN LowerChars[CHOOSE i \in 1..Len(UpperChars) : UpperChars[i] = c]
    ELSE c

\* str.lower()
Lower(s) == [i \in 1..Len(s) |-> LowerChar(s[i])]

\* str(n) of a non-negative int
RECURSIVE Digits(_)
Digits(n) ==
    IF n < 10 THEN <<DigitChars[n + 1]>>
    ELSE Digits(n \div 10) \o <<DigitChars[(n % 10) + 1]>>

\* sub in s
Contains(s, sub) ==
    \E i \in 1..(Len(s) - Len(sub) + 1) : SubSeq(s, i, i + Len(sub) - 1) = sub

\* s.find(sub), 1-based; 0 when absent
Find(s, sub) ==
    IF Contains(s, sub)
    THEN CHOOSE i \in 1..(Len(s) - Len(sub) + 1) :
            /\ SubSeq(s, i, i + Len(sub) - 1) = sub
            /\ \A j \in 1..(i - 1) : SubSeq(s, j, j + Len(sub) - 1) # sub
    ELSE 0

\* s.replace(c, '') for a single character c
RECURSIVE RemoveChar(_, _)
RemoveChar(s, c) ==
    IF s = <<>> THEN <<>>
    ELSE IF Head(s) = c THEN RemoveChar(Tail(s), c)
    ELSE <<Head(s)>> \o RemoveChar(Tail(s), c)

\* str.strip()
RECURSIVE LStrip(_)
LStrip(s) ==
    IF s # <<>> /\ Head(s) \in Whitespace THEN LStrip(Tail(s)) ELSE s

RECURSIVE RStrip(_)
RStrip(s) ==
    IF s # <<>> /\ s[Len(s)] \in Whitespace THEN RStrip(SubSeq(s, 1, Len(s) - 1)) ELSE s

Strip(s) == RStrip(LStrip(s))

\* str.split(sep) with a non-empty separator
RECURSIVE Split(_, _)
Split(s, sep) ==
    LET i == Find(s, sep) IN
    IF i = 0 THEN <<s>>
    ELSE <<SubSeq(s, 1, i - 1)>> \o Split(SubSeq(s, i + Len(sep), Len(s)), sep)

\* sep.join(parts)
RECURSIVE Join(_, _)
Join(parts, sep) ==
    IF parts = <<>> THEN <<>>
    ELSE IF Len(parts) = 1 THEN parts[1]
    ELSE parts[1] \o sep \o Join(Tail(parts), sep)

\* concatenation of a sequence of texts
RECURSIVE Concat(_)
Concat(parts) ==
    IF parts = <<>> THEN <<>> ELSE Head(parts) \o Concat(Tail(parts))

\* Sequences over S of length at most n
SeqsUpTo(S, n) == UNION {[1..k -> S] : k \in 0..n}

-----------------------------------------------------------------------------
(* Python values *)

Absent == [kind |-> "absent", val |-> <<>>]
PyStr(s) == [kind |-> "str", val |-> s]
PyInt(n) == [kind |-> "int", val |-> n]
PyFloat(n) == [kind |-> "float", val |-> n]
PyList(l) == [kind |-> "list", val |-> l]
PyTuple(l) == [kind |-> "tuple", val |-> l]
PyNone == [kind |-> "none", val |-> <<>>]

\* bool(v)
Truthy(v) ==
    CASE v.kind \in {"str", "list", "tuple"} -> Len(v.val) > 0
      [] v.kind \in {"int", "float"} -> v.val # 0
      [] OTHER -> FALSE

\* dict.get(field, default)
Get(d, field, default) == IF d[field].kind = "absent" THEN default ELSE d[field]

\* format(v): how an f-string renders the value
Format(v) ==
    CASE v.kind = "str" -> v.val
      [] v.kind = "int" -> Digits(v.val)
      [] v.kind = "float" -> Digits(v.val) \o <<".", "0">>
      [] OTHER -> <<>>

-----------------------------------------------------------------------------
(* validate_problem_data *)

required_fields == <<"statement", "grade", "topic", "solution_steps", "answer">>

MinGrade == 6
MaxGrade == 10

\* the separator written as '\\n' in the source: a backslash followed by n
StepSeparator == <<BS, "n">>

MissingFields(d) ==
    {i \in 1..Len(required_fields) :
        d[required_fields[i]].kind = "absent" \/ ~Truthy(d[required_fields[i]])}

FirstMissing(d) ==
    required_fields[CHOOSE i \in MissingFields(d) : \A j \in MissingFields(d) : i <= j]

\* a range check that leaves out the lower end
GradeOkExclusive(g) == g.kind = "int" /\ g.val > MinGrade /\ g.val <= MaxGrade

GradeOk(g) == g.kind = "int" /\ g.val >= MinGrade /\ g.val <= MaxGrade

\* the normalisation of a text block of steps
NormalizeSteps(v) ==
    IF v.kind = "str" THEN PyList(Split(Strip(v.val), StepSeparator)) ELSE v

Invalid(msg) == [ok |-> FALSE, msg |-> msg]
Valid == [ok |-> TRUE, msg |-> <<"Valid">>]

\* a validation that normalises the steps before it checks anything
validate_normalizing_first(d) ==
    LET d2 == [d EXCEPT !.solution_steps = NormalizeSteps(d.solution_steps)] IN
    IF MissingFields(d2) # {}
    THEN [data |-> d2, ret |-> Invalid(<<"Missing or empty field: ", FirstMissing(d2)>>)]
    ELSE IF ~GradeOk(d2.grade)
    THEN [data |-> d2, ret |-> Invalid(<<"Grade must be between 6 and 10">>)]
    ELSE IF d2.solution_steps.kind # "list" \/ Len(d2.solution_steps.val) = 0
    THEN [data |-> d2, ret |-> Invalid(<<"Solution steps must be a non-empty list">>)]
    ELSE [data |-> d2, ret |-> Valid]

\* the pair (problem_data after the call, returned tuple)
validate_problem_data(d) ==
    IF MissingFields(d) # {}
    THEN [data |-> d, ret |-> Invalid(<<"Missing or empty field: ", FirstMissing(d)>>)]
    ELSE IF ~GradeOk(d.grade)
    THEN [data |-> d, ret |-> Invalid(<<"Grade must be between 6 and 10">>)]
    ELSE LET d2 == [d EXCEPT !.solution_steps = NormalizeSteps(d.solution_steps)] IN
         IF d2.solution_steps.kind # "list" \/ Len(d2.solution_steps.val) = 0
         THEN [data |-> d2, ret |-> Invalid(<<"Solution steps must be a non-empty list">>)]
         ELSE [data |-> d2, ret |-> Valid]

-----------------------------------------------------------------------------
(* Python dict with insertion order: a sequence of [key, text] entries *)

HasKey(dict, k) == \E i \in 1..Len(dict) : dict[i].key = k

\* dict[k] = v
DictSet(dict, k, v) ==
    IF HasKey(dict, k)
    THEN [i \in 1..Len(dict) |-> IF dict[i].key = k THEN [key |-> k, text |-> v] ELSE dict[i]]
    ELSE Append(dict, [key |-> k, text |-> v])

-----------------------------------------------------------------------------
(* generate_audio_content *)

Math == <<"M", "a", "t", "h">>
DefaultGrade == 8

algebra == <<"a", "l", "g", "e", "b", "r", "a">>
linear_equations == <<"l", "i", "n", "e", "a", "r", " ", "e", "q", "u", "a", "t", "i", "o", "n", "s">>
geometry == <<"g", "e", "o", "m", "e", "t", "r", "y">>
triangles == <<"t", "r", "i", "a", "n", "g", "l", "e", "s">>
trigonometry == <<"t", "r", "i", "g", "o", "n", "o", "m", "e", "t", "r", "y">>

intro == <<"i", "n", "t", "r", "o">>
title == <<"t", "i", "t", "l", "e">>
problem == <<"p", "r", "o", "b", "l", "e", "m">>
solution_start == <<"s", "o", "l", "u", "t", "i", "o", "n", "_", "s", "t", "a", "r", "t">>
answer == <<"a", "n", "s", "w", "e", "r">>
conclusion == <<"c", "o", "n", "c", "l", "u", "s", "i", "o", "n">>
step == <<"s", "t", "e", "p">>

FixedSlots == <<intro, title, problem, solution_start, answer, conclusion>>

\* f"{slot}_{timestamp}"
SlotKey(slot, timestamp) == slot \o <<"_">> \o timestamp

\* a step key that leaves out the step number
StepKeyNoIndex(i, timestamp) == step \o <<"_">> \o timestamp

\* f"step_{i+1}_{timestamp}" for the 0-based index i
StepKey(i, timestamp) == step \o <<"_">> \o Digits(i + 1) \o <<"_">> \o timestamp

\* what "for i, step in enumerate(solution_steps)" iterates over
StepItems(v) ==
    CASE v.kind \in {"list", "tuple"} -> v.val
      [] v.kind = "str" -> [i \in 1..Len(v.val) |-> <<v.val[i]>>]
      [] OTHER -> <<>>

\* the closing sentence of a step narration, picked by the topic
StepTemplate(topic) ==
    IF Lower(topic) \in {algebra, linear_equations} THEN "[hi: equation simplify]"
    ELSE IF Lower(topic) \in {geometry, triangles} THEN "[hi: geometric properties]"
    ELSE IF Lower(topic) = trigonometry THEN "[hi: trigonometric ratio]"
    ELSE "[hi: carefully observe]"

\* f"Step {i+1}: {step}<template>"
StepText(i, item, topic) ==
    <<"S", "t", "e", "p", " ">> \o Digits(i + 1) \o <<":", " ">> \o item
        \o <<StepTemplate(topic)>>

FixedContent(d, timestamp) ==
    LET topic == Get(d, "topic", PyStr(Math)).val
        grade == Format(Get(d, "grade", PyInt(DefaultGrade)))
        statement == Get(d, "statement", PyStr(<<>>)).val
        ans == Get(d, "answer", PyStr(<<>>)).val
    IN <<
      [key |-> SlotKey(intro, timestamp),
       text |-> <<"[hi: namaste, Grade ]">> \o grade \o <<"[hi: ka ]">> \o topic
                    \o <<"[hi: ka ek prashn]">>],
      [key |-> SlotKey(title, timestamp),
       text |-> <<"[hi: aaj ka topic hai - ]">> \o topic \o <<"[hi: step by step solution]">>],
      [key |-> SlotKey(problem, timestamp),
       text |-> <<"[hi: hamara problem statement hai: ]">> \o statement],
      [key |-> SlotKey(solution_start, timestamp),
       text |-> <<"[hi: ab iska solution dekhte hain]">>],
      [key |-> SlotKey(answer, timestamp),
       text |-> <<"[hi: final answer hai ]">> \o ans \o <<"[hi: yah correct answer hai]">>],
      [key |-> SlotKey(conclusion, timestamp),
       text |-> <<"[hi: aaj aapne seekha ki ]">> \o topic \o <<"[hi: Practice karte rahen]">>]
    >>

\* the loop over the steps from index i (0-based) on
RECURSIVE AddSteps(_, _, _, _, _)
AddSteps(dict, items, i, topic, timestamp) ==
    IF i >= Len(items) THEN dict
    ELSE AddSteps(DictSet(dict, StepKey(i, timestamp), StepText(i, items[i + 1], topic)),
                  items, i + 1, topic, timestamp)

generate_audio_content(d, clock) ==
    LET timestamp == Digits(clock) IN
    AddSteps(FixedContent(d, timestamp), StepItems(Get(d, "solution_steps", PyList(<<>>))),
             0, Get(d, "topic", PyStr(Math)).val, timestamp)

-----------------------------------------------------------------------------
(* json.dumps *)

Range(f) == {f[i] : i \in DOMAIN f}

Punctuation == {SP, LF, DQ, BS, "_", "-", ":", ".", ",", "=", "+", "(", ")", "{", "}", "'"}

\* the characters json.dumps leaves unescaped or escapes with a backslash; every
\* other token stands for non-ASCII text, which json.dumps writes as \uXXXX escapes
Ascii == Range(UpperChars) \cup Range(LowerChars) \cup Range(DigitChars) \cup Punctuation

JsonEscape(c) ==
    CASE c = DQ -> <<BS, DQ>>
      [] c = BS -> <<BS, BS>>
      [] c = LF -> <<BS, "n">>
      [] c \notin Ascii -> <<BS, "u", c>>
      [] OTHER -> <<c>>

JsonString(s) == <<DQ>> \o Concat([i \in 1..Len(s) |-> JsonEscape(s[i])]) \o <<DQ>>

\* json.dumps(list of str)
JsonArray(items) ==
    <<"[">> \o Join([i \in 1..Len(items) |-> JsonString(items[i])], <<",", SP>>) \o <<"]">>

\* json.dumps(v) of a str, list or tuple
JsonValue(v) ==
    IF v.kind = "str" THEN JsonString(v.val) ELSE JsonArray(v.val)

Indent8 == <<SP, SP, SP, SP, SP, SP, SP, SP>>

\* json.dumps(dict, indent=8)
JsonObject(dict) ==
    IF dict = <<>> THEN <<"{", "}">>
    ELSE <<"{">>
         \o Join([i \in 1..Len(dict) |->
                    <<LF>> \o Indent8 \o JsonString(dict[i].key) \o <<":", SP>>
                        \o JsonString(dict[i].text)],
                 <<",">>)
         \o <<LF, "}">>

-----------------------------------------------------------------------------
(* _generate_algebra_script: the f-string template, piece by piece *)

Lit(text) == [kind |-> "lit", val |-> text]
Field(name) == [kind |-> "field", val |-> name]

color_scheme ==
    [TEXT_COLOR |-> <<"B", "L", "A", "C", "K">>,
     HIGHLIGHT_COLOR |-> <<"B", "L", "U", "E">>,
     STEP_COLOR |-> <<"B", "L", "U", "E", "_", "D">>,
     ANSWER_COLOR |-> <<"G", "R", "E", "E", "N", "_", "D">>,
     FORMULA_COLOR |-> <<"P", "U", "R", "P", "L", "E">>]

\* the text that opens the literal the statement is embedded in
StatementAnchor == "[tpl 296-314: ... problem_text = Text(]"
\* the text that opens the JSON list of steps
StepsAnchor == "[tpl 314-356: ... solution_steps = ]"
\* the texts that open the two literals the answer is embedded in
AnswerAnchorMath == "[tpl 377-386: }' in k] ... answer_text = MathTex( f]"
AnswerAnchorText == "[tpl 386-392: ... answer_text = Text( f]"

Template == <<
    Lit(<<"[tpl 206-214: from manim import * ... class ]">>),
    Field("class_name"),
    Lit(<<"[tpl 214-217: (Scene): ... self.SARVAM_API_KEY = ]", DQ>>),
    Field("sarvam_api_key"),
    Lit(<<DQ, "[tpl 217-221: ... self.TEXT_COLOR = ]">>),
    Field("TEXT_COLOR"),
    Lit(<<"[tpl 222: self.HIGHLIGHT_COLOR = ]">>),
    Field("HIGHLIGHT_COLOR"),
    Lit(<<"[tpl 223: self.STEP_COLOR = ]">>),
    Field("STEP_COLOR"),
    Lit(<<"[tpl 224: self.ANSWER_COLOR = ]">>),
    Field("ANSWER_COLOR"),
    Lit(<<"[tpl 225: self.FORMULA_COLOR = ]">>),
    Field("FORMULA_COLOR"),
    Lit(<<"[tpl 225-246: ... audio_content = ]">>),
    Field("audio_content"),
    Lit(<<"[tpl 246-296: ... title = Text(]", DQ>>),
    Field("topic"),
    Lit(<<" Problem - Grade ">>),
    Field("grade"),
    Lit(<<DQ, StatementAnchor, DQ>>),
    Field("statement"),
    Lit(<<DQ, StepsAnchor>>),
    Field("solution_steps"),
    Lit(<<"[tpl 356-377: ... step_keys = [k for k in ... if f'step_{]">>),
    Field("i+1"),
    Lit(<<AnswerAnchorMath, DQ, "\\text{Answer: } ">>),
    Field("answer"),
    Lit(<<DQ, AnswerAnchorText, DQ, "Answer: ">>),
    Field("answer"),
    Lit(<<DQ, "[tpl 392-418: ... self.wait(2.0)]">>)
>>

Evaluated(text) == [ok |-> TRUE, text |-> text, exc |-> <<>>]
Raised(exc) == [ok |-> FALSE, text |-> <<>>, exc |-> exc]

NameError(name) == <<"NameError", "name '", name, "' is not defined">>

\* the names bound where the template is evaluated: the method's parameters and
\* the module's globals
BoundNames == {"self", "problem_data", "audio_content", "class_name", "json"}

\* the value of one replacement field of the template
EvalField(name, d, audio, class_name, api_key) ==
    CASE name = "class_name" -> Evaluated(class_name)
      [] name = "sarvam_api_key" -> Evaluated(api_key)
      [] name \in DOMAIN color_scheme -> Evaluated(color_scheme[name])
      [] name = "audio_content" -> Evaluated(JsonObject(audio))
      [] name = "topic" -> Evaluated(Format(Get(d, "topic", PyStr(Math))))
      [] name = "grade" -> Evaluated(Format(Get(d, "grade", PyInt(DefaultGrade))))
      [] name = "statement" -> Evaluated(Format(Get(d, "statement", PyStr(<<>>))))
      [] name = "solution_steps" ->
            Evaluated(JsonValue(Get(d, "solution_steps", PyList(<<>>))))
      [] name = "answer" -> Evaluated(Format(Get(d, "answer", PyStr(<<>>))))
      [] name = "i+1" ->
            IF "i" \in BoundNames THEN Evaluated(<<"1">>) ELSE Raised(NameError("i"))

\* the evaluation of the template from piece k on, built holding the text of the
\* pieces before it
RECURSIVE BuildString(_, _, _, _, _, _)
BuildString(k, built, d, audio, class_name, api_key) ==
    IF k > Len(Template)
    THEN [status |-> "return", text |-> built, exc |-> <<>>, built |-> built]
    ELSE IF Template[k].kind = "lit"
    THEN BuildString(k + 1, built \o Template[k].val, d, audio, class_name, api_key)
    ELSE LET e == EvalField(Template[k].val, d, audio, class_name, api_key) IN
         IF e.ok
         THEN BuildString(k + 1, built \o e.text, d, audio, class_name, api_key)
         ELSE [status |-> "raise", text |-> <<>>, exc |-> e.exc, built |-> built]

generate_algebra_script(d, audio, class_name, api_key) ==
    BuildString(1, <<>>, d, audio, class_name, api_key)

-----------------------------------------------------------------------------
(* generate_script_content *)

equation == <<"e", "q", "u", "a", "t", "i", "o", "n">>
linear == <<"l", "i", "n", "e", "a", "r">>
quadratic == <<"q", "u", "a", "d", "r", "a", "t", "i", "c">>
triangle == <<"t", "r", "i", "a", "n", "g", "l", "e">>
circle == <<"c", "i", "r", "c", "l", "e">>
polygon == <<"p", "o", "l", "y", "g", "o", "n">>
coordinate == <<"c", "o", "o", "r", "d", "i", "n", "a", "t", "e">>
sin == <<"s", "i", "n">>
cos == <<"c", "o", "s">>
tan == <<"t", "a", "n">>
probability == <<"p", "r", "o", "b", "a", "b", "i", "l", "i", "t", "y">>
statistics == <<"s", "t", "a", "t", "i", "s", "t", "i", "c", "s">>
data == <<"d", "a", "t", "a">>

AlgebraKeywords == {algebra, equation, linear, quadratic}
GeometryKeywords == {geometry, triangle, circle, polygon}
TrigonometryKeywords == {trigonometry, sin, cos, tan}
StatsKeywords == {probability, statistics, data}

\* any(keyword in topic for keyword in keywords)
AnyIn(keywords, topic) == \E keyword \in keywords : Contains(topic, keyword)

\* the method the if/elif chain calls
SelectBranch(d) ==
    LET topic == Lower(Get(d, "topic", PyStr(<<>>)).val) IN
    IF AnyIn(AlgebraKeywords, topic) THEN "_generate_algebra_script"
    ELSE IF AnyIn(GeometryKeywords, topic) THEN "_generate_geometry_script"
    ELSE IF Contains(topic, coordinate) THEN "_generate_coordinate_geometry_script"
    ELSE IF AnyIn(TrigonometryKeywords, topic) THEN "_generate_trigonometry_script"
    ELSE IF AnyIn(StatsKeywords, topic) THEN "_generate_stats_script"
    ELSE "_generate_generic_script"

\* the branch methods: each returns what _generate_algebra_script returns
generate_geometry_script(d, audio, class_name, api_key) ==
    generate_algebra_script(d, audio, class_name, api_key)

generate_coordinate_geometry_script(d, audio, class_name, api_key) ==
    generate_algebra_script(d, audio, class_name, api_key)

generate_trigonometry_script(d, audio, class_name, api_key) ==
    generate_algebra_script(d, audio, class_name, api_key)

generate_stats_script(d, audio, class_name, api_key) ==
    generate_algebra_script(d, audio, class_name, api_key)

\* a branch method that composes a text of its own
generate_generic_script_own(d, audio, class_name, api_key) ==
    [status |-> "return", text |-> <<"[tpl generic]">> \o class_name, exc |-> <<>>,
     built |-> <<"[tpl generic]">> \o class_name]

generate_generic_script(d, audio, class_name, api_key) ==
    generate_algebra_script(d, audio, class_name, api_key)

generate_script_content(d, audio, class_name, api_key) ==
    LET branch == SelectBranch(d) IN
    [branch |-> branch,
     out |-> CASE branch = "_generate_algebra_script" ->
                    generate_algebra_script(d, audio, class_name, api_key)
               [] branch = "_generate_geometry_script" ->
                    generate_geometry_script(d, audio, class_name, api_key)
               [] branch = "_generate_coordinate_geometry_script" ->
                    generate_coordinate_geometry_script(d, audio, class_name, api_key)
               [] branch = "_generate_trigonometry_script" ->
                    generate_trigonometry_script(d, audio, class_name, api_key)
               [] branch = "_generate_stats_script" ->
                    generate_stats_script(d, audio, class_name, api_key)
               [] OTHER ->
                    generate_generic_script(d, audio, class_name, api_key)]

-----------------------------------------------------------------------------
(* render_video and create_video_metadata, as far as generate_video_complete
   reads them *)

\* what the renderer's captured output can be
Outputs == {<<>>, <<"[manim log]">>}
ErrOutputs == {<<>>, <<"[traceback]">>}

RenderKinds == {"artifact", "renderer_error", "timeout", "not_found", "exception"}

\* what happens to a render job: how it ends, and what the renderer printed
RenderOutcomes == [kind : RenderKinds, stdout : Outputs, stderr : ErrOutputs]

NotStarted == [kind |-> "not_started", stdout |-> <<>>, stderr |-> <<>>]

ScriptPath(class_name) == PyStr(<<"[tmp]/">> \o class_name \o <<".", "p", "y">>)

\* the message with the renderer's standard output only
RendererErrorMessageStdoutOnly(stdout, stderr) ==
    <<"Manim rendering failed:", BS, "n", "STDOUT: ">> \o stdout

\* f"Manim rendering failed:\\nSTDOUT: {stdout}\\nSTDERR: {stderr}"
RendererErrorMessage(stdout, stderr) ==
    <<"Manim rendering failed:", BS, "n", "STDOUT: ">> \o stdout
        \o <<BS, "n", "STDERR: ">> \o stderr

\* the tuple (video_path, script_path, error) of each return statement
render_video(outcome, class_name) ==
    CASE outcome.kind = "artifact" ->
            [video_path |-> PyStr(<<"[tmp]/">> \o class_name \o <<"_final.mp4">>),
             script_path |-> ScriptPath(class_name), error |-> PyNone]
      [] outcome.kind = "timeout" ->
            [video_path |-> PyNone, script_path |-> ScriptPath(class_name),
             error |-> PyStr(<<"Rendering timed out after 5 minutes">>)]
      [] outcome.kind = "renderer_error" ->
            [video_path |-> PyNone, script_path |-> ScriptPath(class_name),
             error |-> PyStr(RendererErrorMessage(outcome.stdout, outcome.stderr))]
      [] outcome.kind = "not_found" ->
            [video_path |-> PyNone, script_path |-> ScriptPath(class_name),
             error |-> PyStr(<<"Video file not found after rendering">>)]
      [] OTHER ->
            [video_path |-> PyNone, script_path |-> PyNone,
             error |-> PyStr(<<"Rendering error: ", "[str(e)]">>)]

\* the module never imports datetime, which create_video_metadata reads
create_video_metadata == Raised(NameError("datetime"))

-----------------------------------------------------------------------------
(* generate_video_complete *)

Problem == <<"P", "r", "o", "b", "l", "e", "m">>

\* f"{topic_clean}Problem{timestamp}"
ClassName(d, clock) ==
    RemoveChar(RemoveChar(Get(d, "topic", PyStr(Math)).val, SP), "-")
        \o Problem \o Digits(clock)

\* str(e) of a raised exception
ExcMessage(exc) == Tail(exc)

Failed(exc, entered) ==
    [ret |-> [video_path |-> PyNone, script_path |-> PyNone, metadata |-> <<>>,
              error |-> PyStr(<<"Video generation failed: ">> \o ExcMessage(exc))],
     stages |-> entered]

\* lines 596-606: what generate_video_complete makes of render_video's tuple
complete_after_render(rendered) ==
    IF rendered.error # PyNone
    THEN [ret |-> [video_path |-> PyNone, script_path |-> rendered.script_path,
                   metadata |-> <<>>, error |-> rendered.error],
          stages |-> <<"narration", "compose", "audio_files", "render">>]
    ELSE Failed(create_video_metadata.exc,
                <<"narration", "compose", "audio_files", "render", "metadata">>)

\* a pipeline whose try block meets the composition's exception only after the
\* render stage
generate_video_complete_late_except(d, api_key, clock, clock2, outcome) ==
    LET composed ==
            generate_script_content(d, generate_audio_content(d, clock2),
                                    ClassName(d, clock), api_key).out
    IN  IF composed.status = "raise"
        THEN Failed(composed.exc, <<"narration", "compose", "audio_files", "render">>)
        ELSE Failed(create_video_metadata.exc,
                    <<"narration", "compose", "audio_files", "render", "metadata">>)

\* clock and clock2 are the two readings of time.time(), outcome is what the
\* renderer does
generate_video_complete(d, api_key, clock, clock2, outcome) ==
    LET class_name == ClassName(d, clock)
        audio == generate_audio_content(d, clock2)
        composed == generate_script_content(d, audio, class_name, api_key).out
        rendered == render_video(outcome, class_name)
    IN  IF composed.status = "raise"
        THEN Failed(composed.exc, <<"narration", "compose">>)
        ELSE complete_after_render(rendered)

\* whether the try block gets as far as render_video
RendererReached(d, api_key, clock, clock2) ==
    generate_script_content(d, generate_audio_content(d, clock2), ClassName(d, clock),
                            api_key).out.status = "return"

-----------------------------------------------------------------------------
(* The inputs *)

Algebra == <<"A", "l", "g", "e", "b", "r", "a">>
LinearEquations == <<"L", "i", "n", "e", "a", "r", " ", "E", "q", "u", "a", "t", "i", "o", "n", "s">>
QuadraticEquations == <<"Q", "u", "a", "d", "r", "a", "t", "i", "c", " ", "E", "q", "u", "a", "t", "i", "o", "n", "s">>
Geometry == <<"G", "e", "o", "m", "e", "t", "r", "y">>
Triangles == <<"T", "r", "i", "a", "n", "g", "l", "e", "s">>
Circles == <<"C", "i", "r", "c", "l", "e", "s">>
CoordinateGeometry == <<"C", "o", "o", "r", "d", "i", "n", "a", "t", "e", " ", "G", "e", "o", "m", "e", "t", "r", "y">>
Trigonometry == <<"T", "r", "i", "g", "o", "n", "o", "m", "e", "t", "r", "y">>
Probability == <<"P", "r", "o", "b", "a", "b", "i", "l", "i", "t", "y">>
Statistics == <<"S", "t", "a", "t", "i", "s", "t", "i", "c", "s">>
Arithmetic == <<"A", "r", "i", "t", "h", "m", "e", "t", "i", "c">>
ALGEBRA == <<"A", "L", "G", "E", "B", "R", "A">>
DataHandling == <<"D", "a", "t", "a", "-", "H", "a", "n", "d", "l", "i", "n", "g">>

\* the topics the form offers, and two more spellings
Topics == {Algebra, LinearEquations, QuadraticEquations, Geometry, Triangles, Circles,
           CoordinateGeometry, Trigonometry, Probability, Statistics, Arithmetic,
           ALGEBRA, DataHandling}

TestAlgebraProblem == <<"T", "e", "s", "t", "A", "l", "g", "e", "b", "r", "a", "P", "r", "o", "b", "l", "e", "m">>
ClassNames == {TestAlgebraProblem, <<"S", "c", "e", "n", "e", "2">>}

ApiKeys == {<<>>, <<"k", "e", "y">>}

BlockChars == {"a", SP, LF, BS, "n"}
Blocks == SeqsUpTo(BlockChars, MaxBlockLen)

StepTexts == {<<>>, <<SP>>, <<"a">>, <<"b">>, <<DQ>>}
StepLists == SeqsUpTo(StepTexts, MaxSteps)

StatementTexts == {<<"x">>, <<DQ>>, <<"x", BS>>, <<"x", LF, "y">>}
AnswerTexts == {<<"4">>, <<"x", DQ>>}

Grades == {Absent, PyInt(0), PyInt(5), PyInt(6), PyInt(10), PyInt(11),
           PyFloat(8), PyStr(<<"8">>)}

AllSteps ==
    {Absent, PyTuple(<<>>), PyTuple(<<<<"a">>, <<"b">>>>)}
        \cup {PyStr(b) : b \in Blocks} \cup {PyList(l) : l \in StepLists}

FewSteps == {Absent, PyStr(<<>>), PyStr(<<"a">>), PyList(<<>>), PyList(<<<<"a">>>>)}

\* problems that vary what validation reads
ValidationProblems ==
    [statement : {Absent, PyStr(<<>>), PyStr(<<"x">>)},
     grade : Grades,
     topic : {PyStr(<<>>), PyStr(Algebra)},
     solution_steps : FewSteps,
     answer : {PyStr(<<>>), PyStr(<<"4">>)}]
    \cup
    [statement : {PyStr(<<"x">>)},
     grade : {PyInt(8), PyInt(11)},
     topic : {PyStr(Algebra)},
     solution_steps : AllSteps,
     answer : {PyStr(<<"4">>)}]

\* problems that vary what composition reads: every topic, and every text
CompositionProblems ==
    [statement : {PyStr(<<"x">>)},
     grade : {PyInt(8)},
     topic : {PyStr(t) : t \in Topics},
     solution_steps : {PyList(<<<<"a">>, <<"b">>>>)},
     answer : {PyStr(<<"4">>)}]
    \cup
    [statement : {PyStr(s) : s \in StatementTexts},
     grade : {PyInt(8)},
     topic : {PyStr(Algebra)},
     solution_steps : {PyList(<<<<"a">>, <<"b">>>>), PyList(<<<<"a", DQ>>>>)},
     answer : {PyStr(a) : a \in AnswerTexts}]

-----------------------------------------------------------------------------
(* The state machine *)

NoValidation == [called |-> FALSE, ok |-> FALSE, msg |-> <<>>]
NoAudio == [called |-> FALSE, dict |-> <<>>]
NoScript == [called |-> FALSE, args |-> <<>>, branch |-> "", out |-> <<>>]
NoResult == [called |-> FALSE, ret |-> <<>>, stages |-> <<>>]
NoRender ==
    [pc |-> "idle", jobs |-> 0, dirs |-> 0, dir |-> "none", proc |-> "none",
     spawned |-> 0, elapsed |-> 0, late |-> FALSE, returncode |-> 0,
     stdout |-> <<>>, stderr |-> <<>>, videos |-> "no_dir", copied |-> FALSE,
     timed_out |-> FALSE, class_name |-> <<>>, ret |-> <<>>,
     blocked |-> FALSE, by_app |-> FALSE]
NoSynth ==
    [pc |-> "idle", content |-> <<>>, client |-> FALSE, i |-> 1, durations |-> <<>>,
     attempted |-> <<>>, failed |-> {}, raised |-> FALSE]
NoDownload ==
    [pc |-> "idle", max_size_mb |-> 0, size |-> 0, requests |-> 0, chunks |-> <<>>,
     done |-> FALSE, failed |-> "", ret |-> <<>>, raised |-> FALSE]
NoSearch == [pc |-> "idle", content |-> <<>>, search_terms |-> <<>>, results |-> <<>>]
NoScene ==
    [pc |-> "idle", client |-> FALSE, content |-> <<>>, has_durations |-> FALSE,
     durations |-> <<>>, i |-> 1, lookups |-> <<>>, played |-> <<>>, exc |-> ""]

MoreIdle ==
    /\ download = NoDownload
    /\ search = NoSearch
    /\ scene = NoScene

NoUpload ==
    [pc |-> "idle", fn |-> "", video_path |-> <<>>, script_path |-> <<>>,
     metadata |-> "none", given |-> <<>>, local |-> <<>>, uploaded |-> <<>>,
     ret |-> <<>>, raised |-> FALSE]

Init ==
    /\ now = 0
    /\ \/ problem_data \in ValidationProblems /\ sarvam_api_key = <<>>
       \/ problem_data \in CompositionProblems /\ sarvam_api_key \in ApiKeys
    /\ passed = problem_data
    /\ validated = NoValidation
    /\ audio_content = NoAudio
    /\ script = NoScript
    /\ script_prev = NoScript
    /\ result = NoResult
    /\ requests = <<>>
    /\ render = NoRender
    /\ synth = NoSynth
    /\ upload = NoUpload
    /\ MoreIdle

\* a second of the clock passes
Tick ==
    /\ now < MaxClock
    /\ now' = now + 1
    /\ UNCHANGED <<problem_data, passed, validated, audio_content, script,
                   script_prev, result, sarvam_api_key, aux>>

\* the caller validates the problem; the dictionary is normalised in place
ValidateProblemData ==
    LET r == validate_problem_data(problem_data) IN
    /\ ~validated.called
    /\ passed' = problem_data
    /\ problem_data' = r.data
    /\ validated' = [called |-> TRUE, ok |-> r.ret.ok, msg |-> r.ret.msg]
    /\ UNCHANGED <<now, audio_content, script, script_prev, result, sarvam_api_key, aux>>

\* the caller builds the narration of a problem that validation accepted
GenerateAudioContent ==
    /\ validated.called /\ validated.ok
    /\ ~audio_content.called /\ ~result.called
    /\ audio_content' = [called |-> TRUE, dict |-> generate_audio_content(problem_data, now)]
    /\ UNCHANGED <<now, problem_data, passed, validated, script, script_prev, result,
                   sarvam_api_key, aux>>

\* the caller composes the program from the problem and its narration
GenerateScriptContent ==
    /\ audio_content.called
    /\ ~script_prev.called
    /\ \E class_name \in ClassNames :
        LET r == generate_script_content(problem_data, audio_content.dict, class_name,
                                         sarvam_api_key)
        IN  script' = [called |-> TRUE,
                       args |-> <<problem_data, audio_content.dict, class_name,
                                  sarvam_api_key>>,
                       branch |-> r.branch, out |-> r.out]
    /\ script_prev' = script
    /\ UNCHANGED <<now, problem_data, passed, validated, audio_content, result,
                   sarvam_api_key, aux>>

\* one request through the complete pipeline; the renderer acts only when the
\* pipeline reaches it
GenerateVideoComplete ==
    /\ ~audio_content.called /\ ~result.called
    /\ \E clock2 \in {now, now + 1} :
        \E outcome \in IF RendererReached(problem_data, sarvam_api_key, now, clock2)
                       THEN RenderOutcomes ELSE {NotStarted} :
            LET r == generate_video_complete(problem_data, sarvam_api_key, now, clock2,
                                             outcome)
            IN  result' = [called |-> TRUE, ret |-> r.ret, stages |-> r.stages]
    /\ UNCHANGED <<now, problem_data, passed, validated, audio_content, script,
                   script_prev, sarvam_api_key, aux>>

Next ==
    \/ Tick
    \/ ValidateProblemData
    \/ GenerateAudioContent
    \/ GenerateScriptContent
    \/ GenerateVideoComplete

Spec == Init /\ [][Next]_vars

-----------------------------------------------------------------------------
(* Requests in one process: the names generate_video_complete takes *)

MaxRequests == 2

ThreeDShapes == <<"3", "D", " ", "S", "h", "a", "p", "e", "s">>
LinearHyphenEquations ==
    <<"L", "i", "n", "e", "a", "r", "-", "E", "q", "u", "a", "t", "i", "o", "n", "s">>

\* topics of the form's list, and free text that validation accepts as well
RequestTopics == {Algebra, LinearEquations, LinearHyphenEquations, ThreeDShapes}

\* a problem that differs from the sample problem in its topic only
ProblemOn(topic) ==
    [statement |-> PyStr(<<"x">>), grade |-> PyInt(8), topic |-> PyStr(topic),
     solution_steps |-> PyList(<<<<"a">>>>), answer |-> PyStr(<<"4">>)]

\* the keys of a narration mapping
KeySet(dict) == {dict[i].key : i \in 1..Len(dict)}

\* the calls on one problem have not been made
PipelineIdle ==
    /\ now = 0
    /\ problem_data = ProblemOn(Algebra)
    /\ passed = problem_data
    /\ validated = NoValidation
    /\ audio_content = NoAudio
    /\ script = NoScript
    /\ script_prev = NoScript
    /\ result = NoResult
    /\ sarvam_api_key = <<>>

InitRequests ==
    /\ PipelineIdle
    /\ requests = <<>>
    /\ render = NoRender
    /\ synth = NoSynth
    /\ upload = NoUpload
    /\ MoreIdle

\* one more request runs generate_video_complete on a problem that validation
\* accepts: the clock is read for the class name and again for the narration keys
StartRequest ==
    /\ Len(requests) < MaxRequests
    /\ \E topic \in RequestTopics, clock2 \in {now, now + 1} :
        LET d == ProblemOn(topic)
            r == generate_video_complete(d, sarvam_api_key, now, clock2, NotStarted)
        IN  /\ ~RendererReached(d, sarvam_api_key, now, clock2)
            /\ requests' = Append(requests,
                    [topic |-> topic,
                     accepted |-> validate_problem_data(d).ret.ok,
                     class_name |-> ClassName(d, now),
                     keys |-> KeySet(generate_audio_content(d, clock2)),
                     ret |-> r.ret])
    /\ UNCHANGED <<now, problem_data, passed, validated, audio_content, script,
                   script_prev, result, sarvam_api_key, render, synth, upload, more>>

NextRequests ==
    \/ Tick
    \/ StartRequest

SpecRequests == InitRequests /\ [][NextRequests]_vars

-----------------------------------------------------------------------------
(* render_video, step by step: the working directory, the renderer process and
   the polling loop *)

MaxJobs == 2
MaxSleep == 2

\* timeout = 300, in seconds
Timeout == 300

\* what the renderer leaves under media/videos/<class_name>/1080p60
VideoDirs == {"no_dir", "empty_dir", "mp4"}

\* the directory exists
VideoFoundInDir(videos) == videos # "no_dir"

\* os.path.exists(video_dir), and a file of it ends with '.mp4'
VideoFound(videos) == videos = "mp4"

\* how the renderer can end: with code 0 and its log, leaving a video or not,
\* or with code 1 and any output
Exits ==
    [code : {0}, stdout : {<<"[manim log]">>}, stderr : {<<>>}, videos : VideoDirs]
    \cup [code : {1}, stdout : Outputs, stderr : ErrOutputs, videos : {"no_dir"}]

InitRender ==
    /\ PipelineIdle
    /\ requests = <<>>
    /\ render = NoRender
    /\ synth = NoSynth
    /\ upload = NoUpload
    /\ MoreIdle

RenderUnchanged ==
    UNCHANGED <<now, problem_data, passed, validated, audio_content, script,
                script_prev, result, sarvam_api_key, requests, synth, upload, more>>

\* render_video has returned the tuple of the given outcome
Return(job, kind) ==
    [job EXCEPT !.pc = "returned", !.jobs = @ + 1,
                !.ret = render_video([kind |-> kind, stdout |-> job.stdout,
                                      stderr |-> job.stderr], job.class_name)]

\* lines 455-493: the working directory is made, the script written and the
\* renderer started; writing or starting may raise
RenderStart ==
    /\ render.pc \in {"idle", "returned"}
    /\ render.jobs < MaxJobs
    /\ \E how \in {"write_raises", "popen_raises", "started"} :
        LET job == [NoRender EXCEPT !.jobs = render.jobs, !.dirs = render.dirs + 1,
                                    !.dir = "exists", !.class_name = TestAlgebraProblem]
        IN  render' = IF how = "started"
                      THEN [job EXCEPT !.pc = "polling", !.proc = "running",
                                       !.spawned = 1]
                      ELSE Return(job, "exception")
    /\ RenderUnchanged

\* lines 495-504: the renderer is still running at a poll; past the budget it is
\* killed and render_video returns at once, otherwise the loop sleeps
PollRunning ==
    /\ render.pc = "polling"
    /\ render.proc \in {"running", "blocked"}
    /\ IF render.elapsed > Timeout
       THEN \E left \in {"alive", "zombie"} :
                render' = Return([render EXCEPT !.proc = left, !.timed_out = TRUE],
                                 "timeout")
       ELSE \E slept \in 1..MaxSleep :
                render' = [render EXCEPT !.elapsed = @ + slept]
    /\ RenderUnchanged

\* the renderer ends by itself, between two polls
ProcessExits ==
    /\ render.pc = "polling"
    /\ render.proc = "running"
    /\ \E e \in Exits :
        render' = [render EXCEPT !.proc = "exited", !.returncode = e.code,
                                 !.late = render.elapsed > Timeout,
                                 !.stdout = e.stdout, !.stderr = e.stderr,
                                 !.videos = e.videos]
    /\ RenderUnchanged

\* lines 486-487, 495-504: both pipes are read by communicate() only, after the
\* renderer has ended.  A renderer that writes more than a pipe holds stops in
\* its write and stays there: poll() keeps answering None.  The renderer here
\* is one that would end with code 0 and a video if its output were read
ProcessBlocks ==
    /\ render.pc = "polling"
    /\ render.proc = "running"
    /\ render' = [render EXCEPT !.proc = "blocked", !.blocked = TRUE]
    /\ RenderUnchanged

\* lines 495, 506-533: a poll finds the renderer ended; its output is collected
\* and it is reaped, then the exit code and the video directory decide
PollExited ==
    /\ render.pc = "polling"
    /\ render.proc = "exited"
    /\ \E copy_ok \in BOOLEAN :
        LET job == [render EXCEPT !.proc = "reaped"] IN
        render' =
            IF job.returncode # 0 THEN Return(job, "renderer_error")
            ELSE IF ~VideoFound(job.videos) THEN Return(job, "not_found")
            ELSE IF copy_ok THEN Return([job EXCEPT !.copied = TRUE], "artifact")
            ELSE Return(job, "exception")
    /\ RenderUnchanged

NextRender ==
    \/ RenderStart
    \/ PollRunning
    \/ ProcessExits
    \/ ProcessBlocks
    \/ PollExited

SpecRender == InitRender /\ [][NextRender]_vars

-----------------------------------------------------------------------------
(* What the callers receive: generate_video_complete after render_video, and
   the interactive application's own render_video *)

\* app.py's render_video: the pair (video_path, script_path) of each return
\* statement; after a failure the second place holds the message
app_render_video(outcome, class_name) ==
    CASE outcome.kind = "artifact" ->
            [video_path |-> PyStr(<<"[tmp]/media/videos/">> \o class_name
                                    \o <<"/1080p60/">> \o class_name \o <<".mp4">>),
             script_path |-> ScriptPath(class_name)]
      [] outcome.kind = "renderer_error" ->
            [video_path |-> PyNone,
             script_path |-> PyStr(<<"Manim error: ">> \o outcome.stderr)]
      [] outcome.kind = "not_found" ->
            [video_path |-> PyNone, script_path |-> PyStr(<<"Video file not found">>)]
      [] outcome.kind = "timeout" ->
            [video_path |-> PyNone, script_path |-> PyStr(<<"Video rendering timed out">>)]
      [] OTHER ->
            [video_path |-> PyNone,
             script_path |-> PyStr(<<"Rendering error: ", "[str(e)]">>)]

\* what subprocess.run can do: the renderer ends, the budget runs out, or the
\* call raises
AppRuns == [how : {"exit"}, exit : Exits]
           \cup [how : {"timeout", "raises"}, exit : {CHOOSE e \in Exits : e.code = 1}]

AppKind(run) ==
    CASE run.how = "timeout" -> "timeout"
      [] run.how = "raises" -> "exception"
      [] run.exit.code # 0 -> "renderer_error"
      [] VideoFound(run.exit.videos) -> "artifact"
      [] OTHER -> "not_found"

\* app.py lines 363-405, the whole call: the directory of the with statement
\* is made, the script written, the renderer run to its end or killed and
\* waited for, the video looked up; leaving the with block removes the
\* directory and all it holds before the caller has the pair
AppRenderVideo ==
    /\ render.pc \in {"idle", "returned"}
    /\ render.jobs < MaxJobs
    /\ \E run \in AppRuns :
        render' =
            [NoRender EXCEPT
                !.pc = "returned", !.jobs = render.jobs + 1, !.dirs = render.dirs,
                !.dir = "none", !.by_app = TRUE, !.proc = "reaped", !.spawned = 1,
                !.class_name = TestAlgebraProblem,
                !.timed_out = run.how = "timeout",
                !.returncode = IF run.how = "exit" THEN run.exit.code ELSE 0,
                !.stdout = IF run.how = "exit" THEN run.exit.stdout ELSE <<>>,
                !.stderr = IF run.how = "exit" THEN run.exit.stderr ELSE <<>>,
                !.videos = IF run.how = "exit" THEN run.exit.videos ELSE "no_dir",
                !.ret = app_render_video(
                            [kind |-> AppKind(run),
                             stdout |-> IF run.how = "exit" THEN run.exit.stdout ELSE <<>>,
                             stderr |-> IF run.how = "exit" THEN run.exit.stderr ELSE <<>>],
                            TestAlgebraProblem)]
    /\ RenderUnchanged

\* video_generator.py lines 593-611: generate_video_complete goes on with the
\* tuple render_video returned
CompleteAfterRender ==
    /\ render.pc = "returned"
    /\ ~render.by_app
    /\ LET r == complete_after_render(render.ret)
       IN  result' = [called |-> TRUE, ret |-> r.ret, stages |-> r.stages]
    /\ render' = [render EXCEPT !.pc = "handed_off"]
    /\ UNCHANGED <<now, problem_data, passed, validated, audio_content, script,
                   script_prev, sarvam_api_key, requests, synth, upload, more>>

NextHandOff ==
    \/ RenderStart
    \/ PollRunning
    \/ ProcessExits
    \/ ProcessBlocks
    \/ PollExited
    \/ AppRenderVideo
    \/ CompleteAfterRender

SpecHandOff == InitRender /\ [][NextHandOff]_vars

-----------------------------------------------------------------------------
(* create_audio_files: one speech-synthesis call per narration item.
   Durations are in tenths of a second. *)

MaxItems == 2

\* max(2.0, word_count * 0.4), and the fallback 3.0
MinDuration == 20
PerWord == 4
FallbackDuration == 30

\* len(text.split()): the runs of characters that are not whitespace
RECURSIVE WordCount(_)
WordCount(text) ==
    IF text = <<>> THEN 0
    ELSE IF Head(text) \in Whitespace THEN WordCount(Tail(text))
    ELSE IF Len(text) = 1 \/ text[2] \in Whitespace THEN 1 + WordCount(Tail(text))
    ELSE WordCount(Tail(text))

Max(a, b) == IF a >= b THEN a ELSE b

EstimatedDuration(text) == Max(MinDuration, WordCount(text) * PerWord)

\* an except clause for the class handler catches an exception of class exc;
\* every class named in this model derives from Exception
Catches(handler, exc) == handler = "Exception" \/ handler = exc

\* what one pass can meet: text_to_speech raises ApiError, the response holds
\* no audio (audios[0] raises IndexError), save raises OSError
SynthOutcomes == {"ok", "ApiError", "IndexError", "OSError"}

\* an except clause for ApiError alone
SynthCatchesApiErrorOnly(exc) == Catches("ApiError", exc)

\* except Exception as e
SynthCatches(exc) == Catches("Exception", exc)

\* the duration the loop body stores for one item
ItemDuration(outcome, text) ==
    IF outcome = "ok" THEN EstimatedDuration(text) ELSE FallbackDuration

\* narration texts of no word, one word, two words and six words
SynthTexts ==
    {<<>>, <<SP, SP>>, <<"a">>, <<"a", SP, "b">>,
     <<"a", SP, "b", SP, "c", SP, "d", SP, "e", SP, "f">>}

\* the narration keys, in the order generate_audio_content inserts them
SynthKeys == <<SlotKey(intro, <<"0">>), SlotKey(title, <<"0">>), SlotKey(problem, <<"0">>)>>

\* narration mappings of at most MaxItems items
AudioContents ==
    UNION {[1..n -> SynthTexts] : n \in 0..MaxItems}

AsDict(texts) ==
    [k \in 1..Len(texts) |->
        [key |-> IF k <= Len(SynthKeys) THEN SynthKeys[k] ELSE StepKey(k, <<"0">>),
         text |-> texts[k]]]

InitAudio ==
    /\ PipelineIdle
    /\ requests = <<>>
    /\ render = NoRender
    /\ synth = NoSynth
    /\ upload = NoUpload
    /\ MoreIdle

AudioUnchanged ==
    UNCHANGED <<now, problem_data, passed, validated, audio_content, script,
                script_prev, result, sarvam_api_key, requests, render, upload, more>>

\* lines 130-139: without a client every item gets its estimate and the call
\* returns; with a client the loop begins
CreateAudioFiles ==
    /\ synth.pc = "idle"
    /\ \E texts \in AudioContents, client \in BOOLEAN :
        LET content == AsDict(texts) IN
        synth' =
            IF ~client
            THEN [NoSynth EXCEPT !.pc = "returned", !.content = content,
                     !.durations = [k \in 1..Len(content) |->
                          [key |-> content[k].key,
                           text |-> EstimatedDuration(content[k].text)]]]
            ELSE [NoSynth EXCEPT !.pc = IF content = <<>> THEN "returned" ELSE "loop",
                                 !.content = content, !.client = TRUE]
    /\ AudioUnchanged

\* lines 140-168: one pass of the loop; the call returns after the last item
SynthesizeItem ==
    /\ synth.pc = "loop"
    /\ \E outcome \in SynthOutcomes :
        LET item == synth.content[synth.i] IN
        synth' =
            IF outcome # "ok" /\ ~SynthCatches(outcome)
            THEN [synth EXCEPT !.pc = "raised", !.raised = TRUE,
                               !.attempted = Append(@, item.key),
                               !.failed = @ \cup {item.key}]
            ELSE [synth EXCEPT
                    !.durations = DictSet(@, item.key, ItemDuration(outcome, item.text)),
                    !.attempted = Append(@, item.key),
                    !.failed = IF outcome = "ok" THEN @ ELSE @ \cup {item.key},
                    !.i = @ + 1,
                    !.pc = IF synth.i = Len(synth.content) THEN "returned" ELSE "loop"]
    /\ AudioUnchanged

NextAudio ==
    \/ CreateAudioFiles
    \/ SynthesizeItem

SpecAudio == InitAudio /\ [][NextAudio]_vars

-----------------------------------------------------------------------------
(* Uploads: GoogleDriveManager.upload_video_package with create_output_folder
   and _upload_file, and the older GoogleDriveManager.upload_video *)

\* the local files an upload is pointed at: each is there or is not
LocalFiles == [video : {"present", "missing"}, script : {"present", "missing"}]

VideoPaths == {PyNone, PyStr(<<"[tmp]/video_final.mp4">>)}
ScriptPaths == {PyNone, PyStr(<<"[tmp]/script.py">>)}

\* metadata: none given, a dictionary, a dictionary json.dumps cannot encode
Metadatas == {"none", "dict", "unserialisable"}

\* what a call of the Drive service can do: answer, answer without an id,
\* raise HttpError, or raise something else (no service, no connection)
ServiceOutcomes == {"ok", "no_id", "HttpError", "AttributeError", "TimeoutError"}

Returns(value) == [raised |-> FALSE, value |-> value, exc |-> ""]
Raises(exc) == [raised |-> TRUE, value |-> PyNone, exc |-> exc]

\* create_output_folder: except HttpError returns None, anything else goes on
\* to the caller
create_output_folder(service) ==
    IF service = "ok" THEN Returns(PyStr(<<"[folder id]">>))
    ELSE IF service = "no_id" THEN Returns(PyNone)
    ELSE IF Catches("HttpError", service) THEN Returns(PyNone)
    ELSE Raises(service)

\* _upload_file: the file is read, then sent; except Exception returns None
upload_file(file, service) ==
    IF file = "missing" THEN Returns(PyNone)
    ELSE IF service \in {"ok", "no_id"} THEN Returns(PyStr(<<service>>))
    ELSE Returns(PyNone)

\* upload_video_package's except clause for HttpError alone
PackageCatchesHttpErrorOnly(exc) == Catches("HttpError", exc)

\* except Exception as e, around the whole of upload_video_package
PackageCatches(exc) == Catches("Exception", exc)

InitUpload ==
    /\ PipelineIdle
    /\ requests = <<>>
    /\ render = NoRender
    /\ synth = NoSynth
    /\ upload = NoUpload
    /\ MoreIdle

UploadUnchanged ==
    UNCHANGED <<now, problem_data, passed, validated, audio_content, script,
                script_prev, result, sarvam_api_key, requests, render, synth, more>>

\* an exception inside upload_video_package: caught and None returned, or not
Fail(up, exc) ==
    IF PackageCatches(exc)
    THEN [up EXCEPT !.pc = "returned", !.ret = PyNone]
    ELSE [up EXCEPT !.pc = "raised", !.raised = TRUE]

\* lines 256-264: the call, and the folder of the package
UploadVideoPackage ==
    /\ upload.pc = "idle"
    /\ \E video_path \in VideoPaths, script_path \in ScriptPaths,
          metadata \in Metadatas, local \in LocalFiles, service \in ServiceOutcomes :
        LET up == [NoUpload EXCEPT !.fn = "upload_video_package",
                       !.video_path = video_path, !.script_path = script_path,
                       !.metadata = metadata, !.given = local, !.local = local]
            folder == create_output_folder(service)
        IN  upload' = IF folder.raised THEN Fail(up, folder.exc)
                      ELSE IF ~Truthy(folder.value)
                      THEN [up EXCEPT !.pc = "returned", !.ret = PyNone]
                      ELSE [up EXCEPT !.pc = "video"]
    /\ UploadUnchanged

\* one of the two files: sent when a path was given, listed when sent; a
\* response without an id raises KeyError when it is listed
SendFile(up, path, file, type, service, next) ==
    LET sent == upload_file(file, service) IN
    IF ~Truthy(path) \/ ~Truthy(sent.value) THEN [up EXCEPT !.pc = next]
    ELSE IF service = "no_id" THEN Fail(up, "KeyError")
    ELSE [up EXCEPT !.pc = next, !.uploaded = Append(@, type)]

\* lines 268-281
UploadVideoFile ==
    /\ upload.pc = "video"
    /\ \E service \in ServiceOutcomes :
        upload' = SendFile(upload, upload.video_path, upload.local.video, "video",
                           service, "script")
    /\ UploadUnchanged

\* lines 283-296
UploadScriptFile ==
    /\ upload.pc = "script"
    /\ \E service \in ServiceOutcomes :
        upload' = SendFile(upload, upload.script_path, upload.local.script, "script",
                           service, "metadata")
    /\ UploadUnchanged

\* lines 298-327: the metadata, when given, and the return of the results
UploadMetadata ==
    /\ upload.pc = "metadata"
    /\ \E service \in ServiceOutcomes :
        upload' =
            IF upload.metadata = "none"
            THEN [upload EXCEPT !.pc = "returned", !.ret = PyList(upload.uploaded)]
            ELSE IF upload.metadata = "unserialisable" THEN Fail(upload, "TypeError")
            ELSE IF service = "no_id" THEN Fail(upload, "KeyError")
            ELSE IF service # "ok" THEN Fail(upload, service)
            ELSE [upload EXCEPT !.pc = "returned",
                                !.ret = PyList(Append(upload.uploaded, "metadata"))]
    /\ UploadUnchanged

\* upload_video of app.py, whole: the folder, the video, the script; the first
\* step that raises ends it in the except clause, which returns None
UploadVideo ==
    /\ upload.pc = "idle"
    /\ \E video_path \in VideoPaths, script_path \in ScriptPaths, local \in LocalFiles,
          folder \in ServiceOutcomes, video \in ServiceOutcomes,
          script_sent \in ServiceOutcomes :
        LET up == [NoUpload EXCEPT !.fn = "upload_video", !.video_path = video_path,
                       !.script_path = script_path, !.given = local, !.local = local]
            exc == IF folder \notin {"ok", "no_id"} THEN folder
                   ELSE IF video_path = PyNone THEN "TypeError"
                   ELSE IF local.video = "missing" THEN "FileNotFoundError"
                   ELSE IF video \notin {"ok", "no_id"} THEN video
                   ELSE IF script_path = PyNone THEN "TypeError"
                   ELSE IF local.script = "missing" THEN "FileNotFoundError"
                   ELSE IF script_sent \notin {"ok", "no_id"} THEN script_sent
                   ELSE ""
        IN  upload' = IF exc = ""
                      THEN [up EXCEPT !.pc = "returned",
                                      !.uploaded = <<"video", "script">>,
                                      !.ret = PyList(<<"video", "script">>)]
                      ELSE Fail(up, exc)
    /\ UploadUnchanged

NextUpload ==
    \/ UploadVideoPackage
    \/ UploadVideoFile
    \/ UploadScriptFile
    \/ UploadMetadata
    \/ UploadVideo

SpecUpload == InitUpload /\ [][NextUpload]_vars

-----------------------------------------------------------------------------
(* GoogleDriveManager.download_file_content: the size ceiling and the chunk loop *)

MaxChunks == 2

\* max_size_mb: int = 50
DefaultMaxSizeMb == 50

BytesPerMb == 1024 * 1024

Bytes(chunks) == [kind |-> "bytes", val |-> chunks]

\* file_size >= max_size_bytes
TooLargeOrEqual(file_size, max_size_mb) == file_size >= max_size_mb * BytesPerMb

\* file_size > max_size_bytes
TooLarge(file_size, max_size_mb) == file_size > max_size_mb * BytesPerMb

\* the sizes a file's metadata can report for a ceiling: none (read as 0), one
\* byte, the ceiling itself, one byte more
ReportedSizes(max_size_mb) ==
    {0, 1, max_size_mb * BytesPerMb, max_size_mb * BytesPerMb + 1}

\* except HttpError, then except Exception: both return None
DownloadCatches(exc) == Catches("HttpError", exc) \/ Catches("Exception", exc)

\* an exception inside download_file_content
DownloadFails(dl, exc) ==
    IF DownloadCatches(exc)
    THEN [dl EXCEPT !.pc = "returned", !.failed = exc, !.ret = PyNone]
    ELSE [dl EXCEPT !.pc = "raised", !.failed = exc, !.raised = TRUE]

InitDownload ==
    /\ PipelineIdle
    /\ requests = <<>>
    /\ render = NoRender
    /\ synth = NoSynth
    /\ upload = NoUpload
    /\ MoreIdle

DownloadUnchanged ==
    UNCHANGED <<now, problem_data, passed, validated, audio_content, script,
                script_prev, result, sarvam_api_key, requests, render, synth, upload,
                search, scene>>

\* lines 108-126: the metadata request and the size test; the media request is
\* prepared, nothing is fetched yet
DownloadFileContent ==
    /\ download.pc = "idle"
    /\ \E max_size_mb \in {1, 2, DefaultMaxSizeMb},
          meta \in {"ok", "HttpError", "TimeoutError", "ValueError"} :
        \E file_size \in ReportedSizes(max_size_mb) :
            LET dl == [NoDownload EXCEPT !.max_size_mb = max_size_mb,
                                         !.size = file_size]
            IN  download' =
                    IF meta # "ok" THEN DownloadFails(dl, meta)
                    ELSE IF TooLarge(file_size, max_size_mb)
                    THEN [dl EXCEPT !.pc = "returned", !.ret = PyNone]
                    ELSE [dl EXCEPT !.pc = "loop"]
    /\ DownloadUnchanged

\* lines 131-139: one pass of the loop, one request for the next chunk; after
\* the chunk that ends the file the accumulated bytes are returned
NextChunk ==
    /\ download.pc = "loop"
    /\ \E got \in {"chunk", "last_chunk", "HttpError", "ConnectionError"} :
        LET dl == [download EXCEPT !.requests = @ + 1] IN
        /\ got = "chunk" => Len(download.chunks) < MaxChunks
        /\ download' =
            IF got = "chunk" THEN [dl EXCEPT !.chunks = Append(@, "[chunk]")]
            ELSE IF got = "last_chunk"
            THEN [dl EXCEPT !.chunks = Append(@, "[chunk]"), !.done = TRUE,
                            !.pc = "returned",
                            !.ret = Bytes(Append(download.chunks, "[chunk]"))]
            ELSE DownloadFails(dl, got)
    /\ DownloadUnchanged

NextDownload ==
    \/ DownloadFileContent
    \/ NextChunk

SpecDownload == InitDownload /\ [][NextDownload]_vars

-----------------------------------------------------------------------------
(* The scene program of the template: __init__, create_all_audio_files and the
   narration lookups of construct *)

\* problems whose steps are shown or, being blank, skipped
SceneProblems ==
    {[ProblemOn(Algebra) EXCEPT !.solution_steps = PyList(l)] :
        l \in SeqsUpTo({<<"a">>, <<SP>>}, MaxSteps)}

\* the steps construct makes an equation of: if step.strip()
ShownSteps(d) ==
    LET steps == d.solution_steps.val
    IN  Cardinality({k \in 1..Len(steps) : Strip(steps[k]) # <<>>})

\* the lookups of construct in their order; the pattern is searched in the
\* keys, and only the step lookups are guarded by "if step_keys"
ConstructLookups(d) ==
    <<[pattern |-> intro, guarded |-> FALSE],
      [pattern |-> problem, guarded |-> FALSE],
      [pattern |-> solution_start, guarded |-> FALSE]>>
    \o [k \in 1..ShownSteps(d) |->
            [pattern |-> step \o <<"_">> \o Digits(k), guarded |-> TRUE]]
    \o <<[pattern |-> answer, guarded |-> FALSE],
         [pattern |-> conclusion, guarded |-> FALSE]>>

\* [k for k in self.audio_durations.keys() if pattern in k]
RECURSIVE MatchingKeys(_, _)
MatchingKeys(durations, pattern) ==
    IF durations = <<>> THEN <<>>
    ELSE (IF Contains(Head(durations).key, pattern) THEN <<Head(durations).key>>
          ELSE <<>>) \o MatchingKeys(Tail(durations), pattern)

InitScene ==
    /\ PipelineIdle
    /\ requests = <<>>
    /\ render = NoRender
    /\ synth = NoSynth
    /\ upload = NoUpload
    /\ MoreIdle

SceneUnchanged ==
    UNCHANGED <<now, problem_data, passed, validated, audio_content, script,
                script_prev, result, sarvam_api_key, requests, render, synth, upload,
                download, search>>

\* lines 214-246: __init__ makes the client when the key is not empty and calls
\* create_all_audio_files, which returns at once without a client and
\* otherwise sets audio_durations to an empty mapping
SceneInit ==
    /\ scene.pc = "idle"
    /\ \E d \in SceneProblems, api_key \in ApiKeys :
        LET content == generate_audio_content(d, 0)
            sc == [NoScene EXCEPT !.content = content, !.lookups = ConstructLookups(d)]
        IN  scene' =
                IF api_key = <<>>
                THEN [sc EXCEPT !.pc = "construct"]
                ELSE [sc EXCEPT !.pc = "synth", !.client = TRUE, !.has_durations = TRUE]
    /\ SceneUnchanged

\* lines 248-273: one narration item; whatever the synthesis raises, the except
\* clause stores 3.0
SceneSynthesize ==
    /\ scene.pc = "synth"
    /\ \E outcome \in {"ok", "ApiError"} :
        LET item == scene.content[scene.i]
            stored == Append(scene.durations,
                             [key |-> item.key, val |-> ItemDuration(outcome, item.text)])
        IN  scene' = [scene EXCEPT
                        !.durations = stored,
                        !.i = IF scene.i = Len(scene.content) THEN 1 ELSE @ + 1,
                        !.pc = IF scene.i = Len(scene.content) THEN "construct" ELSE @]
    /\ SceneUnchanged

\* lines 306, 330, 351, 377, 411, 415: one narration lookup of construct
SceneLookup ==
    /\ scene.pc = "construct"
    /\ LET look == scene.lookups[scene.i]
           keys == MatchingKeys(scene.durations, look.pattern)
           after == [scene EXCEPT
                        !.i = @ + 1,
                        !.pc = IF scene.i = Len(scene.lookups) THEN "done" ELSE @]
       IN  scene' =
            IF ~scene.has_durations
            THEN [scene EXCEPT !.pc = "raised", !.exc = "AttributeError"]
            ELSE IF keys # <<>> THEN [after EXCEPT !.played = Append(@, keys[1])]
            ELSE IF look.guarded THEN after
            ELSE [scene EXCEPT !.pc = "raised", !.exc = "IndexError"]
    /\ SceneUnchanged

NextScene ==
    \/ SceneInit
    \/ SceneSynthesize
    \/ SceneLookup

SpecScene == InitScene /\ [][NextScene]_vars

-----------------------------------------------------------------------------
(* GoogleDriveManager.search_in_textbook and _calculate_relevance.  The scores
   are whole numbers: every summand of the code is one *)

MaxLines == 7
MaxTerms == 2

\* lines[max(0, i-3) : min(len(lines), i+4)]
ContextLines == 3

\* score += 10.0, 5.0, count * 2.0, 1.0
ExactScore == 10
PrefixScore == 5
OccurrenceScore == 2
KeywordScore == 1

math_keywords ==
    {<<"f", "o", "r", "m", "u", "l", "a">>, <<"t", "h", "e", "o", "r", "e", "m">>,
     <<"p", "r", "o", "o", "f">>, <<"e", "x", "a", "m", "p", "l", "e">>,
     <<"s", "o", "l", "u", "t", "i", "o", "n">>, answer}

\* text.startswith(prefix)
StartsWith(text, prefix) ==
    Len(prefix) <= Len(text) /\ SubSeq(text, 1, Len(prefix)) = prefix

\* text.count(sub): the occurrences that do not overlap, from the left
RECURSIVE Count(_, _)
Count(text, sub) ==
    IF sub = <<>> THEN Len(text) + 1
    ELSE LET i == Find(text, sub) IN
         IF i = 0 THEN 0
         ELSE 1 + Count(SubSeq(text, i + Len(sub), Len(text)), sub)

calculate_relevance(text, term) ==
    LET text_lower == Lower(text)
        term_lower == Lower(term)
    IN  (IF term_lower = Strip(text_lower) THEN ExactScore ELSE 0)
        + (IF StartsWith(text_lower, term_lower) THEN PrefixScore ELSE 0)
        + Count(text_lower, term_lower) * OccurrenceScore
        + Cardinality({keyword \in math_keywords : Contains(text_lower, keyword)})
            * KeywordScore

\* the dictionary appended for the term at position t and the line at the
\* 1-based position i.  term_index is not a key of the program's dictionary:
\* it tells apart the entries of equal terms
SearchResult(search_terms, lines, t, i) ==
    [term |-> search_terms[t],
     term_index |-> t,
     line_number |-> i,
     content |-> Strip(lines[i]),
     context |-> Join(SubSeq(lines, Max(1, i - ContextLines),
                             IF Len(lines) < i + ContextLines THEN Len(lines)
                             ELSE i + ContextLines), <<LF>>),
     relevance_score |-> calculate_relevance(lines[i], search_terms[t])]

\* the two loops: term by term, line by line
RECURSIVE Matches(_, _, _, _)
Matches(search_terms, lines, t, i) ==
    IF t > Len(search_terms) THEN <<>>
    ELSE IF i > Len(lines) THEN Matches(search_terms, lines, t + 1, 1)
    ELSE (IF Contains(Lower(lines[i]), Lower(search_terms[t]))
          THEN <<SearchResult(search_terms, lines, t, i)>>
          ELSE <<>>) \o Matches(search_terms, lines, t, i + 1)

\* r put behind the entries of sorted that score at least as much
RECURSIVE InsertByScore(_, _)
InsertByScore(sorted, r) ==
    IF sorted = <<>> THEN <<r>>
    ELSE IF Head(sorted).relevance_score >= r.relevance_score
    THEN <<Head(sorted)>> \o InsertByScore(Tail(sorted), r)
    ELSE <<r>> \o sorted

\* a sort by falling score that puts the later of two equal entries first
RECURSIVE SortByScoreUnstable(_)
SortByScoreUnstable(results) ==
    IF results = <<>> THEN <<>>
    ELSE InsertByScore(SortByScoreUnstable(Tail(results)), Head(results))

\* results.sort(key=..., reverse=True): by falling score, equal entries in the
\* order they had
RECURSIVE SortByScore(_)
SortByScore(results) ==
    IF results = <<>> THEN <<>>
    ELSE InsertByScore(SortByScore(SubSeq(results, 1, Len(results) - 1)),
                       results[Len(results)])

search_in_textbook(content, search_terms) ==
    SortByScore(Matches(search_terms, Split(content, <<LF>>), 1, 1))

Pi == <<"P", "i", SP>>
ProofPi == <<"p", "r", "o", "o", "f", " ", "p", "i">>

LineTexts == {Pi, ProofPi}

SearchTerms == {<<"p", "i">>, <<"P", "I">>}

\* texts of at most MaxLines lines
TextbookContents ==
    {Join(ls, <<LF>>) : ls \in SeqsUpTo(LineTexts, MaxLines) \ {<<>>}}

InitSearch ==
    /\ PipelineIdle
    /\ requests = <<>>
    /\ render = NoRender
    /\ synth = NoSynth
    /\ upload = NoUpload
    /\ MoreIdle

SearchInTextbook ==
    /\ search.pc = "idle"
    /\ \E content \in TextbookContents, search_terms \in SeqsUpTo(SearchTerms, MaxTerms) :
        search' = [pc |-> "returned", content |-> content, search_terms |-> search_terms,
                   results |-> search_in_textbook(content, search_terms)]
    /\ UNCHANGED <<now, problem_data, passed, validated, audio_content, script,
                   script_prev, result, sarvam_api_key, requests, render, synth, upload,
                   download, scene>>

NextSearch == SearchInTextbook

SpecSearch == InitSearch /\ [][NextSearch]_vars

-----------------------------------------------------------------------------
(* Properties of validation *)

TextFields == {"statement", "topic", "answer"}
OtherFields == {"statement", "grade", "topic", "answer"}

\* a field that is absent, or empty as Python counts it
IsMissing(v) ==
    \/ v.kind \in {"absent", "none"}
    \/ v.kind \in {"str", "list", "tuple"} /\ v.val = <<>>
    \/ v.kind \in {"int", "float"} /\ v.val = 0

AllPresent(d) == \A f \in OtherFields \cup {"solution_steps"} : ~IsMissing(d[f])

GradeInRange(g) == g.kind = "int" /\ g.val \in 6..10

MissingMessage(msg) == Len(msg) = 2 /\ msg[1] = "Missing or empty field: "

\* C1: for every valid problem with n solution steps the narration mapping
\* holds, in this order, one entry for each of the six fixed slots and then
\* the n entries step_1 .. step_n, all under one timestamp, and no two of its
\* keys are equal.
C1_NarrationEntries ==
    (audio_content.called /\ validated.ok) =>
        LET dict == audio_content.dict
            n == Len(problem_data.solution_steps.val)
        IN  /\ Len(dict) = 6 + n
            /\ \A i, j \in 1..Len(dict) : i # j => dict[i].key # dict[j].key
            /\ \E t \in 0..MaxClock :
                /\ \A s \in 1..6 : dict[s].key = FixedSlots[s] \o <<"_">> \o Digits(t)
                /\ \A i \in 1..n :
                    dict[6 + i].key = step \o <<"_">> \o Digits(i) \o <<"_">> \o Digits(t)

\* a narration was built for a validated problem of two steps
C1_Witness ==
    /\ audio_content.called /\ validated.ok
    /\ Len(problem_data.solution_steps.val) >= 2

\* steps as a user writes them one per line: no line break, no surrounding
\* blank, not empty
CleanSteps == SeqsUpTo({"a", "n"}, MaxBlockLen) \ {<<>>}
CleanStepLists == SeqsUpTo(CleanSteps, MaxSteps) \ {<<>>}

\* C2: when the steps are passed as one block, the steps joined by line
\* breaks, an accepting validation leaves solution_steps equal to the list
\* of those steps, which is what passing them pre-split leaves.
C2_BlockEqualsPreSplit ==
    \A l \in CleanStepLists :
        (/\ validated.called /\ validated.ok
         /\ passed.solution_steps = PyStr(Join(l, <<LF>>)))
        => problem_data.solution_steps = PyList(l)

\* C3, as amended: validation rejects with the missing-field message when any
\* of the five fields is absent or empty, also when the grade is out of range
\* as well; it rejects when the grade is not an integer in 6..10; and it
\* accepts with "Valid" every problem whose five fields are non-empty, whose
\* grade is an integer in 6..10 and whose steps are a text block or a list.
C3_ValidationVerdict ==
    validated.called =>
        /\ ~AllPresent(passed) => (~validated.ok /\ MissingMessage(validated.msg))
        /\ ~GradeInRange(passed.grade) => ~validated.ok
        /\ (AllPresent(passed) /\ ~GradeInRange(passed.grade)) =>
                validated.msg = <<"Grade must be between 6 and 10">>
        /\ (/\ AllPresent(passed) /\ GradeInRange(passed.grade)
            /\ passed.solution_steps.kind \in {"str", "list"})
           => (validated.ok /\ validated.msg = <<"Valid">>)

\* C3 as stated: every problem with five non-empty fields and a grade in 6..10
\* is accepted, whatever the type of its steps.
C3_AsStated ==
    validated.called =>
        /\ ~AllPresent(passed) => (~validated.ok /\ MissingMessage(validated.msg))
        /\ ~GradeInRange(passed.grade) => ~validated.ok
        /\ (AllPresent(passed) /\ GradeInRange(passed.grade))
           => (validated.ok /\ validated.msg = <<"Valid">>)

\* validation ran on a problem with an empty answer and the grade 11
C3_Witness ==
    /\ validated.called
    /\ IsMissing(passed.answer)
    /\ passed.grade = PyInt(11)

\* C4, as amended: validation changes no field but solution_steps, and it
\* changes solution_steps only when it was passed as a text block and the
\* problem is accepted, replacing the block by a list; a rejected problem and
\* a problem whose steps are not a text block are left as they were.
C4_OnlyStepsNormalised ==
    validated.called =>
        /\ \A f \in OtherFields : problem_data[f] = passed[f]
        /\ (problem_data.solution_steps # passed.solution_steps) =>
                /\ passed.solution_steps.kind = "str"
                /\ validated.ok
                /\ problem_data.solution_steps.kind = "list"
        /\ (~validated.ok \/ passed.solution_steps.kind # "str") => problem_data = passed

\* C4 as stated: the dictionary is the same before and after the call.
C4_NoSideEffects == validated.called => problem_data = passed

\* validation accepted a problem whose steps were a text block and left a list
C4_Witness ==
    /\ validated.called /\ validated.ok
    /\ passed.solution_steps.kind = "str"
    /\ problem_data.solution_steps.kind = "list"

\* a block of blanks and line breaks only
WhitespaceOnly(v) ==
    v.kind = "str" /\ v.val # <<>> /\ \A i \in 1..Len(v.val) : v.val[i] \in Whitespace

\* C5: an accepted problem has a non-empty list of steps each of which is
\* non-empty, and a block that holds no step text at all is rejected.
C5_AcceptedStepsNonEmpty ==
    validated.called =>
        /\ validated.ok =>
            /\ problem_data.solution_steps.kind = "list"
            /\ problem_data.solution_steps.val # <<>>
            /\ \A i \in 1..Len(problem_data.solution_steps.val) :
                    problem_data.solution_steps.val[i] # <<>>
        /\ WhitespaceOnly(passed.solution_steps) => ~validated.ok

-----------------------------------------------------------------------------
(* Properties of composition *)

\* the items occur in the text one after the other
RECURSIVE OccursInOrder(_, _)
OccursInOrder(text, items) ==
    IF items = <<>> THEN TRUE
    ELSE LET i == Find(text, Head(items)) IN
         /\ i # 0
         /\ OccursInOrder(SubSeq(text, i + Len(Head(items)), Len(text)), Tail(items))

\* the character a backslash escape stands for in a Python literal
Unescape(c) ==
    CASE c = "n" -> <<LF>>
      [] c = DQ -> <<DQ>>
      [] c = BS -> <<BS>>
      [] OTHER -> <<BS, c>>

\* the value of the double-quoted Python literal whose first character is
\* text[i]: it ends at the first unescaped quote, and at a raw line break
RECURSIVE ReadLiteral(_, _)
ReadLiteral(text, i) ==
    IF i > Len(text) \/ text[i] = DQ \/ text[i] = LF THEN <<>>
    ELSE IF text[i] = BS /\ i < Len(text)
    THEN Unescape(text[i + 1]) \o ReadLiteral(text, i + 2)
    ELSE <<text[i]>> \o ReadLiteral(text, i + 1)

\* the literal that follows the opening quote after the anchor
LiteralAfter(text, anchor) == ReadLiteral(text, Find(text, <<anchor>>) + 2)

\* C6: for every valid problem generate_script_content returns program text,
\* and the text holds the entry-point class name, the statement, every step
\* in order and the answer.
C6_ReturnsProgram ==
    (script.called /\ validated.ok) =>
        /\ script.out.status = "return"
        /\ Contains(script.out.text, script.args[3])
        /\ Contains(script.out.text, problem_data.statement.val)
        /\ OccursInOrder(script.out.text, problem_data.solution_steps.val)
        /\ Contains(script.out.text, problem_data.answer.val)

\* C7: the literal the statement is embedded in reads back as the statement,
\* whatever quotes, backslashes and line breaks the statement holds.  Stated
\* of the text composed so far, so that it does not rest on the composition
\* reaching its end.
C7_EmbeddedLiteralRoundTrips ==
    (script.called /\ Contains(script.out.built, <<StatementAnchor>>)) =>
        LiteralAfter(script.out.built, StatementAnchor) = problem_data.statement.val

\* text that ends the double-quoted literal it is embedded in
Unsafe(d) ==
    \/ Contains(Get(d, "statement", PyStr(<<>>)).val, <<DQ>>)
    \/ Contains(Get(d, "answer", PyStr(<<>>)).val, <<DQ>>)

\* C8: when the statement or the answer cannot be embedded safely the
\* composition fails with UnsafeEmbedding, and the request ends with that
\* error and without the renderer having been started.
C8_UnsafeEmbeddingFails ==
    /\ (script.called /\ Unsafe(problem_data)) =>
            /\ script.out.status = "raise"
            /\ script.out.exc # <<>> /\ script.out.exc[1] = "UnsafeEmbedding"
    /\ (result.called /\ problem_data.topic.kind = "str" /\ Unsafe(problem_data)) =>
            /\ \E i \in 1..Len(result.ret.error.val) :
                    result.ret.error.val[i] = "UnsafeEmbedding"
            /\ \A i \in 1..Len(result.stages) : result.stages[i] # "render"

\* C9: two calls with the same problem, narration, entry-point name and key
\* both return program text, and the same text.
C9_Deterministic ==
    (script.called /\ script_prev.called /\ script.args = script_prev.args) =>
        /\ script.out.status = "return"
        /\ script_prev.out.status = "return"
        /\ script.out.text = script_prev.out.text

\* the branch the claim gives a topic of the form's list
ClaimedBranch(topic) ==
    CASE topic \in {Algebra, LinearEquations, QuadraticEquations, ALGEBRA} ->
            "_generate_algebra_script"
      [] topic \in {Geometry, Triangles, Circles} -> "_generate_geometry_script"
      [] topic = CoordinateGeometry -> "_generate_coordinate_geometry_script"
      [] topic = Trigonometry -> "_generate_trigonometry_script"
      [] topic \in {Probability, Statistics} -> "_generate_stats_script"
      [] topic = Arithmetic -> "_generate_generic_script"
      [] OTHER -> "any"

\* C10: the branch is the one of the topic's family: algebra, geometry,
\* coordinate geometry, trigonometry, statistics (for probability and for
\* statistics), and the generic branch for a topic of no family.
C10_BranchByTopicFamily ==
    script.called =>
        \/ ClaimedBranch(problem_data.topic.val) = "any"
        \/ script.branch = ClaimedBranch(problem_data.topic.val)

-----------------------------------------------------------------------------
(* Properties of the branch methods *)

\* C11: whatever the topic, generate_script_content ends as a direct call of
\* _generate_algebra_script with the same arguments ends: with the same text
\* when that returns, with the same exception when that raises.
C11_BranchesDegenerate ==
    script.called =>
        script.out = generate_algebra_script(script.args[1], script.args[2],
                                             script.args[3], script.args[4])

\* a topic of no family has been composed, on the generic branch
C11_Witness ==
    /\ script.called
    /\ script.branch = "_generate_generic_script"
    /\ script.out.status = "raise"

-----------------------------------------------------------------------------
(* Properties of the names a request takes *)

Letters == Range(UpperChars) \cup Range(LowerChars) \cup {"_"}

\* a name the program can give its scene class: a letter or an underscore, then
\* letters, digits and underscores
IsIdentifier(name) ==
    /\ name # <<>>
    /\ name[1] \in Letters
    /\ \A i \in 1..Len(name) : name[i] \in Letters \cup Range(DigitChars)

\* C12: the class name of every request on a topic that validation accepts is
\* an identifier.
C12_ClassNameIsIdentifier ==
    \A i \in 1..Len(requests) :
        requests[i].accepted => IsIdentifier(requests[i].class_name)

\* C13: two requests of one process never share their class name, nor any
\* narration key.
C13_RequestsDistinct ==
    \A i, j \in 1..Len(requests) :
        i < j => /\ requests[i].class_name # requests[j].class_name
                 /\ requests[i].keys \cap requests[j].keys = {}

-----------------------------------------------------------------------------
(* Properties of render_video *)

Returned == render.pc = "returned"

\* C14: once render_video has returned, by whichever return statement, the
\* working directory it made is gone, and no scratch directory is left.
C14_DirectoryReleased ==
    Returned => render.dir = "none" /\ render.dirs = 0

\* the renderer ended with a code other than 0 and render_video saw it
SawFailure == Returned /\ render.proc = "reaped" /\ render.returncode # 0

\* C15: after a non-zero exit render_video returns no video path and an error
\* that carries the captured standard error and the captured standard output,
\* and the renderer was started once.
C15_RendererError ==
    SawFailure =>
        /\ render.ret.video_path = PyNone
        /\ render.ret.error.kind = "str"
        /\ Contains(render.ret.error.val, <<"STDOUT: ">> \o render.stdout)
        /\ Contains(render.ret.error.val, <<"STDERR: ">> \o render.stderr)
        /\ render.spawned = 1

C15_Witness ==
    /\ SawFailure
    /\ render.stdout # <<>>
    /\ render.stderr # <<>>

\* C16: when render_video returns, the renderer it started is neither alive nor
\* waiting to be reaped; a renderer still running past the budget was killed
\* and the return is the timeout failure.
C16_NoProcessLeft ==
    Returned =>
        /\ render.proc \in {"none", "reaped"}
        /\ render.timed_out =>
                render.ret.error = PyStr(<<"Rendering timed out after 5 minutes">>)

Success == render.ret.video_path # PyNone

\* C17: render_video returns a video path exactly when a poll found the
\* renderer ended with code 0 before any poll found the budget exceeded, a .mp4
\* file is in the video directory and copying it raised nothing; with code 0
\* and no such file it returns "Video file not found after rendering".
C17_SuccessExactly ==
    Returned =>
        /\ Success <=> /\ render.proc = "reaped"
                       /\ render.returncode = 0
                       /\ render.videos = "mp4"
                       /\ render.copied
        /\ (render.proc = "reaped" /\ render.returncode = 0 /\ render.videos # "mp4") =>
                /\ ~Success
                /\ render.ret.error = PyStr(<<"Video file not found after rendering">>)

\* C17 as stated: success exactly when the renderer ended with code 0 within
\* the budget and a .mp4 file is in the video directory.
C17_AsStated ==
    Returned =>
        (Success <=> /\ render.proc = "reaped"
                     /\ render.returncode = 0
                     /\ ~render.late
                     /\ render.videos = "mp4")

C17_Witness ==
    /\ Returned
    /\ Success
    /\ render.late

-----------------------------------------------------------------------------
(* Properties of the pipeline on rejected problems *)

\* validate_problem_data rejects the problem
Rejected(d) == ~validate_problem_data(d).ret.ok

\* C18: on a problem that validation rejects generate_video_complete enters no
\* stage (no narration, no composition, no synthesis, no render) and returns
\* the validation error.
C18_RejectedNeverStarts ==
    (result.called /\ Rejected(problem_data)) =>
        /\ result.stages = <<>>
        /\ result.ret.error = PyStr(validate_problem_data(problem_data).ret.msg)

-----------------------------------------------------------------------------
(* Properties of create_audio_files *)

\* C19: create_audio_files returns without raising, with a duration for every
\* narration key and for no other; with a client every item was attempted, in
\* order, whichever items failed; each failed item has the duration 3.0 and
\* every duration is at least 2.0.
C19_EveryKeyGetsDuration ==
    /\ ~synth.raised
    /\ synth.pc = "returned" =>
        /\ [k \in 1..Len(synth.durations) |-> synth.durations[k].key]
                = [k \in 1..Len(synth.content) |-> synth.content[k].key]
        /\ synth.client =>
                synth.attempted = [k \in 1..Len(synth.content) |-> synth.content[k].key]
        /\ \A k \in 1..Len(synth.durations) :
                /\ synth.durations[k].text >= MinDuration
                /\ synth.durations[k].key \in synth.failed =>
                        synth.durations[k].text = FallbackDuration

\* the first item failed and the second was synthesised all the same
C19_Witness ==
    /\ synth.pc = "returned"
    /\ Len(synth.content) >= 2
    /\ synth.content[1].key \in synth.failed
    /\ synth.content[2].key \notin synth.failed
    /\ synth.durations[2].text > MinDuration

-----------------------------------------------------------------------------
(* Properties of the uploads *)

\* C20: an upload raises nothing; it returns its results or None, and the local
\* video and script files are afterwards as they were given to it.
C20_UploadLeavesRender ==
    /\ ~upload.raised
    /\ upload.pc # "idle" => upload.local = upload.given
    /\ upload.pc = "returned" => upload.ret.kind \in {"none", "list"}

\* an upload that failed after the video had been sent, with both files there
C20_Witness ==
    /\ upload.pc = "returned"
    /\ upload.fn = "upload_video_package"
    /\ upload.ret = PyNone
    /\ upload.uploaded = <<"video", "script">>
    /\ upload.local = [video |-> "present", script |-> "present"]

-----------------------------------------------------------------------------
(* Properties of download_file_content *)

Ceiling == download.max_size_mb * BytesPerMb

Downloaded == download.pc = "returned"

\* C21: download_file_content raises nothing.  A file whose reported size is
\* above the ceiling gives None with no chunk requested.  Any other file gives
\* the accumulated bytes once the downloader has reported done, unless a
\* request raised, and then None.
C21_SizeCeiling ==
    /\ ~download.raised
    /\ (download.pc # "idle" /\ download.size > Ceiling) =>
            /\ Downloaded
            /\ download.ret = PyNone
            /\ download.requests = 0
    /\ (Downloaded /\ download.ret # PyNone) =>
            /\ download.size <= Ceiling
            /\ download.done
            /\ download.ret = Bytes(download.chunks)
            /\ download.requests = Len(download.chunks)
    /\ (Downloaded /\ download.ret = PyNone /\ download.size <= Ceiling) =>
            download.failed # ""

\* C21 as stated: every file within the ceiling gives the accumulated bytes.
C21_AsStated ==
    (Downloaded /\ download.size <= Ceiling) =>
        /\ download.done
        /\ download.ret = Bytes(download.chunks)

\* a file of exactly the ceiling was fetched in several chunks
C21_Witness ==
    /\ Downloaded
    /\ download.size = Ceiling
    /\ download.ret # PyNone
    /\ Len(download.chunks) > 1

-----------------------------------------------------------------------------
(* Properties of the order of the stages *)

StageOrder == <<"narration", "compose", "audio_files", "render", "metadata">>

IsPrefix(s, t) == Len(s) <= Len(t) /\ s = SubSeq(t, 1, Len(s))

\* composition raises for the problem and key of this run, whatever the clock
CompositionRaises ==
    \A clock, clock2 \in 0..(MaxClock + 1) :
        ~RendererReached(problem_data, sarvam_api_key, clock, clock2)

ErrorPrefix == <<"Video generation failed: ">>

-----------------------------------------------------------------------------
(* Properties of the hand-off to the caller *)

HandedOff == render.pc = "handed_off"

\* C23: after a successful render generate_video_complete returns the rendered
\* .mp4 path, the script path, a metadata dictionary and no error.
C23_SuccessIsReturned ==
    (HandedOff /\ Success) =>
        /\ result.ret.video_path = render.ret.video_path
        /\ result.ret.script_path = render.ret.script_path
        /\ result.ret.metadata # <<>>
        /\ result.ret.error = PyNone

\* C24: whenever a render_video reports success, the directory that holds the
\* returned video and script is still there when the caller has the paths.
C24_PathsExistAtHandOff ==
    (Returned /\ Success) => render.dir = "exists"

-----------------------------------------------------------------------------
(* Properties of waiting on the renderer *)

\* C26: a renderer that would end with code 0 and a video once its output is
\* read gives its artifact however much it writes: when render_video returns
\* after the renderer filled a pipe, it returns the artifact and no timeout.
C26_NoPipeDeadlock ==
    (Returned /\ render.blocked) =>
        /\ Success
        /\ ~render.timed_out

-----------------------------------------------------------------------------
(* Properties of the narration template *)

\* the closing sentence the claim gives a step narration: the one of the
\* family that the script dispatch finds by keyword; topics of the other
\* branches that carry a keyword are left open
KeywordTemplates(d) ==
    CASE SelectBranch(d) = "_generate_algebra_script" -> {"[hi: equation simplify]"}
      [] SelectBranch(d) = "_generate_geometry_script" -> {"[hi: geometric properties]"}
      [] SelectBranch(d) = "_generate_trigonometry_script" -> {"[hi: trigonometric ratio]"}
      [] SelectBranch(d) = "_generate_generic_script" -> {"[hi: carefully observe]"}
      [] OTHER -> {"[hi: equation simplify]", "[hi: geometric properties]",
                   "[hi: trigonometric ratio]", "[hi: carefully observe]"}

\* C25: every step narration ends with the template of the topic's keyword
\* family, the family generate_script_content dispatches on.
C25_TemplateByKeyword ==
    audio_content.called =>
        \A i \in 7..Len(audio_content.dict) :
            LET text == audio_content.dict[i].text
            IN  text[Len(text)] \in KeywordTemplates(problem_data)

-----------------------------------------------------------------------------
(* Properties of the embedded API key *)

\* the text that opens the literal the key is embedded in
KeyAnchor == "[tpl 214-217: (Scene): ... self.SARVAM_API_KEY = ]"

\* C27: the program text generate_script_content returns holds the generator's
\* API key as the literal assigned to SARVAM_API_KEY, so the key can be read
\* back from the text.
C27_KeyInProgramText ==
    script.called =>
        /\ script.out.status = "return"
        /\ Contains(script.out.text, <<KeyAnchor>>)
        /\ LiteralAfter(script.out.text, KeyAnchor) = script.args[4]

-----------------------------------------------------------------------------
(* Properties of the scene program *)

\* C28: with a speech client and without one, construct finds audio_durations
\* set and an entry for each of its narration lookups, and runs to its end.
C28_DurationsInitialised ==
    /\ scene.pc = "construct" => scene.has_durations
    /\ scene.pc # "raised"

-----------------------------------------------------------------------------
(* Properties of the uploaded package *)

PackageReturned == upload.pc = "returned" /\ upload.fn = "upload_video_package"

\* C29: upload_video_package returns a result only if the video file itself
\* was uploaded, and the files of the result are the uploads that succeeded,
\* in the order video, script, metadata.
C29_ResultHasVideo ==
    (PackageReturned /\ upload.ret # PyNone) =>
        /\ upload.ret.val # <<>>
        /\ upload.ret.val[1] = "video"
        /\ IsPrefix(upload.uploaded, upload.ret.val)

-----------------------------------------------------------------------------
(* Properties of search_in_textbook *)

SearchedLines == Split(search.content, <<LF>>)

Occurs(lines, t, i) == Contains(Lower(lines[i]), Lower(search.search_terms[t]))

====
